---- MODULE Spec2Model ----
(***************************************************************************)
(* Model of the untrusted-content layer of cosmic-ext-notifications-ng:    *)
(*   - audio.rs          play_sound_file / play_sound_name and the worker  *)
(*                       threads they spawn;                               *)
(*   - markup_parser.rs  parse_markup, decode_entities, merge_segments;    *)
(*   - sanitizer.rs      decode_entities, strip_html, extract_hrefs.       *)
(* Text is a sequence of one-character strings, a path is a sequence of    *)
(* path components, Option<T> is the empty sequence (None) or <<x>>.       *)
(***************************************************************************)
EXTENDS Bags, FiniteSets, Integers, Sequences, TLC

VARIABLES
  fs,        \* audio: the set of paths for which Path::exists() is true
  env,       \* audio: the process environment (XDG_DATA_HOME, HOME)
  threads,   \* audio: bag of the live threads spawned by play_sound_file
  log,       \* audio: the errors written by error!() in the worker closure
  ncalls,    \* audio: number of requests issued so far
  ret,       \* audio: the value returned by the most recent request
  html,      \* markup: the text handed to parse_markup / strip_html / ...
  pc,        \* markup: where the called function is ("idle" when none is)
  segments,  \* parse_markup: the segments pushed so far, at the end the result
  current_style,  \* parse_markup: local current_style
  current_link,   \* parse_markup: local current_link
  style_stack,    \* parse_markup: local style_stack, top at the end
  last_end,  \* parse_markup: number of characters of html consumed so far
  buf,       \* sanitizer: the text a function of sanitizer.rs has computed
  results,   \* extract_hrefs: local results, a sequence of <<url, text>>
  rich,      \* has_rich_content: the value it returned
  app_rules, \* config: NotificationsConfig::app_rules
  lookup,    \* config: the arguments of the find_app_rule call
  rule       \* config: what find_app_rule returned, a reference into
             \* app_rules written as the index of the rule

avars == <<fs, env, threads, log, ncalls, ret>>
pvars == <<segments, current_style, current_link, style_stack, last_end>>
svars == <<buf, results>>
mvars == <<html, pc, pvars, svars>>
cvars == <<app_rules, lookup, rule>>
ovars == <<rich, cvars>>
vars == <<avars, mvars, ovars>>

(***************************************************************************)
(* Bounds                                                                  *)
(***************************************************************************)
MaxCalls == 5
MaxFrags == 4
MaxNest == 7
MaxAnchors == 2
MaxRules == 3

(***************************************************************************)
(* Option<T>                                                               *)
(***************************************************************************)
None == <<>>
Some(x) == <<x>>

(***************************************************************************)
(* audio.rs                                                                *)
(***************************************************************************)
Ok == [tag |-> "Ok"]
NoAudioDevice == [tag |-> "NoAudioDevice"]
FileNotFound(path) == [tag |-> "FileNotFound", path |-> path]
SoundNotFound(name) == [tag |-> "SoundNotFound", name |-> name]
PathNotAllowed(path) == [tag |-> "PathNotAllowed", path |-> path]
IoError == [tag |-> "IoError"]
DecodeError == [tag |-> "DecodeError"]
PlaybackError == [tag |-> "PlaybackError"]

\* The errors play_sound_file_blocking can return, in the order of its `?`s.
WorkerErrors == {NoAudioDevice, IoError, DecodeError, PlaybackError}

HomeDir == <<"home", "user">>
XdgDir == <<"home", "user", ".data">>

\* The files the tests play.
TestSound == HomeDir \o <<".local", "share", "sounds", "test_concurrent_sound.wav">>
MaliciousSound == <<"tmp", "malicious_sound.wav">>
NonexistentSound == <<"tmp", "nonexistent_sound_file_12345.wav">>
BellSound == <<"usr", "share", "sounds", "freedesktop", "stereo", "bell.oga">>

RequestPaths == {TestSound, MaliciousSound, NonexistentSound}
RequestNames == {"bell"}

exists(path) == path \in fs

extensions == <<"oga", "ogg", "wav", "mp3">>

system_dirs ==
  << <<"usr", "share", "sounds", "freedesktop", "stereo">>,
     <<"usr", "share", "sounds", "freedesktop">>,
     <<"usr", "share", "sounds">>,
     <<"usr", "local", "share", "sounds", "freedesktop", "stereo">>,
     <<"usr", "local", "share", "sounds", "freedesktop">>,
     <<"usr", "local", "share", "sounds">> >>

\* get_sound_theme_dirs that lists the system directories first.
get_sound_theme_dirs_SystemFirst(e) ==
  LET user ==
        IF e.XDG_DATA_HOME # None
        THEN << e.XDG_DATA_HOME[1] \o <<"sounds", "freedesktop", "stereo">>,
                e.XDG_DATA_HOME[1] \o <<"sounds">> >>
        ELSE IF e.HOME # None
        THEN << e.HOME[1] \o <<".local", "share", "sounds", "freedesktop", "stereo">>,
                e.HOME[1] \o <<".local", "share", "sounds">> >>
        ELSE <<>>
  IN system_dirs \o user

get_sound_theme_dirs(e) ==
  LET user ==
        IF e.XDG_DATA_HOME # None
        THEN << e.XDG_DATA_HOME[1] \o <<"sounds", "freedesktop", "stereo">>,
                e.XDG_DATA_HOME[1] \o <<"sounds">> >>
        ELSE IF e.HOME # None
        THEN << e.HOME[1] \o <<".local", "share", "sounds", "freedesktop", "stereo">>,
                e.HOME[1] \o <<".local", "share", "sounds">> >>
        ELSE <<>>
  IN user \o system_dirs

\* The paths find_sound_theme_file probes, in the order it probes them:
\* for each directory, for each extension, the file and then stereo/file.
ThemeCandidates(name, dirs) ==
  LET file(x) == name \o "." \o extensions[x]
      n == Len(extensions)
      cand(k) ==
        LET d == dirs[((k - 1) \div (2 * n)) + 1]
            r == (k - 1) % (2 * n)
            x == (r \div 2) + 1
        IN IF r % 2 = 0 THEN d \o <<file(x)>> ELSE d \o <<"stereo", file(x)>>
  IN [k \in 1..(Len(dirs) * 2 * n) |-> cand(k)]

find_sound_theme_file(name) ==
  LET cands == ThemeCandidates(name, get_sound_theme_dirs(env))
      hits == {k \in 1..Len(cands) : exists(cands[k])}
  IN IF hits = {} THEN [ok |-> FALSE, err |-> SoundNotFound(name)]
     ELSE [ok |-> TRUE,
           path |-> cands[CHOOSE k \in hits : \A j \in hits : k <= j]]

Thread(path, st) == [path |-> path, st |-> st]
ActiveWorkers == BagCardinality(threads)
BagAdd(b, e) == b (+) SetToBag({e})
BagRemove(b, e) == b (-) SetToBag({e})

\* play_sound_file without the path.exists() test of its first statement.
PlaySoundFile_NoExistsCheck(fn, arg, path) ==
  /\ threads' = BagAdd(threads, Thread(path, "spawned"))
  /\ ret' = [fn |-> fn, arg |-> arg, result |-> Ok]

\* The body of play_sound_file: the value it returns and the thread it spawns.
PlaySoundFile(fn, arg, path) ==
  IF ~exists(path)
  THEN /\ ret' = [fn |-> fn, arg |-> arg, result |-> FileNotFound(path)]
       /\ UNCHANGED threads
  ELSE /\ threads' = BagAdd(threads, Thread(path, "spawned"))
       /\ ret' = [fn |-> fn, arg |-> arg, result |-> Ok]

play_sound_file(path) ==
  /\ ncalls < MaxCalls
  /\ ncalls' = ncalls + 1
  /\ PlaySoundFile("play_sound_file", path, path)
  /\ UNCHANGED <<fs, env, log, mvars, ovars>>

play_sound_name(name) ==
  /\ ncalls < MaxCalls
  /\ ncalls' = ncalls + 1
  /\ LET found == find_sound_theme_file(name)
     IN IF found.ok
        THEN PlaySoundFile("play_sound_name", <<name>>, found.path)
        ELSE /\ ret' = [fn |-> "play_sound_name", arg |-> <<name>>,
                        result |-> found.err]
             /\ UNCHANGED threads
  /\ UNCHANGED <<fs, env, log, mvars, ovars>>

\* A worker that hands its error to the caller instead of only logging it.
play_sound_file_blocking_err_Propagates(t, e) ==
  /\ BagIn(t, threads)
  /\ t.st = "spawned"
  /\ threads' = BagRemove(threads, t)
  /\ log' = log \cup {e.tag}
  /\ ret' = [ret EXCEPT !.result = e]
  /\ UNCHANGED <<fs, env, ncalls, mvars, ovars>>

\* play_sound_file_blocking returns Err through one of its `?`: the closure
\* logs the error and the thread ends.
play_sound_file_blocking_err(t, e) ==
  /\ BagIn(t, threads)
  /\ t.st = "spawned"
  /\ threads' = BagRemove(threads, t)
  /\ log' = log \cup {e.tag}
  /\ UNCHANGED <<fs, env, ncalls, ret, mvars, ovars>>

\* The stream, the file, the decoder and the sink are all set up:
\* sink.append(source).
play_sound_file_blocking_append(t) ==
  /\ BagIn(t, threads)
  /\ t.st = "spawned"
  /\ threads' = BagAdd(BagRemove(threads, t), Thread(t.path, "playing"))
  /\ UNCHANGED <<fs, env, log, ncalls, ret, mvars, ovars>>

\* sink.sleep_until_end() returns, play_sound_file_blocking returns Ok(()).
play_sound_file_blocking_end(t) ==
  /\ BagIn(t, threads)
  /\ t.st = "playing"
  /\ threads' = BagRemove(threads, t)
  /\ UNCHANGED <<fs, env, log, ncalls, ret, mvars, ovars>>

(***************************************************************************)
(* Text: characters, str::replace, and the regular expressions             *)
(***************************************************************************)
LowerLetters ==
  <<"a", "b", "c", "d", "e", "f", "g", "h", "i", "j", "k", "l", "m",
    "n", "o", "p", "q", "r", "s", "t", "u", "v", "w", "x", "y", "z">>
UpperLetters ==
  <<"A", "B", "C", "D", "E", "F", "G", "H", "I", "J", "K", "L", "M",
    "N", "O", "P", "Q", "R", "S", "T", "U", "V", "W", "X", "Y", "Z">>
Digits == {"0", "1", "2", "3", "4", "5", "6", "7", "8", "9"}

Range(f) == {f[x] : x \in DOMAIN f}
Min(S) == CHOOSE x \in S : \A y \in S : x <= y
Max(S) == CHOOSE x \in S : \A y \in S : x >= y

\* \w and \s of the regex crate, on the characters the inputs use.
WordChars == Range(LowerLetters) \cup Range(UpperLetters) \cup Digits \cup {"_"}
SpaceChars == {" ", "\n", "\t", "\r"}
QuoteChars == {"\"", "'"}
IsWordChar(c) == c \in WordChars
IsSpace(c) == c \in SpaceChars
IsQuote(c) == c \in QuoteChars

\* char::to_lowercase and str::to_lowercase
LowerOf == [c \in Range(UpperLetters) |->
             LowerLetters[CHOOSE k \in DOMAIN UpperLetters : UpperLetters[k] = c]]
to_lowercase_char(c) == IF c \in DOMAIN LowerOf THEN LowerOf[c] ELSE c
to_lowercase(s) == [k \in DOMAIN s |-> to_lowercase_char(s[k])]

\* Index of the first c in s at or after from, 0 when there is none.
IndexFrom(s, c, from) ==
  LET K == {k \in from..Len(s) : s[k] = c}
  IN IF K = {} THEN 0 ELSE Min(K)

\* s[from..] starts with pat.
StartsWithAt(s, pat, from) ==
  /\ from + Len(pat) - 1 <= Len(s)
  /\ \A k \in 1..Len(pat) : s[from + k - 1] = pat[k]

starts_with(s, pat) == StartsWithAt(s, pat, 1)

\* str::replace(from, to): the non-overlapping matches, left to right.
RECURSIVE replace_at(_, _, _, _)
replace_at(s, from, to, i) ==
  LET K == {k \in i..Len(s) : StartsWithAt(s, from, k)}
  IN IF K = {} THEN SubSeq(s, i, Len(s))
     ELSE SubSeq(s, i, Min(K) - 1) \o to \o replace_at(s, from, to, Min(K) + Len(from))

replace(s, from, to) ==
  IF \A k \in 1..Len(s) : s[k] # from[1] THEN s ELSE replace_at(s, from, to, 1)

\* The entities of the two decode_entities tables.
E_lt == <<"&", "l", "t", ";">>
E_gt == <<"&", "g", "t", ";">>
E_amp == <<"&", "a", "m", "p", ";">>
E_quot == <<"&", "q", "u", "o", "t", ";">>
E_39 == <<"&", "#", "3", "9", ";">>
E_x27 == <<"&", "#", "x", "2", "7", ";">>
E_58 == <<"&", "#", "5", "8", ";">>
E_x3A == <<"&", "#", "x", "3", "A", ";">>
E_nbsp == <<"&", "n", "b", "s", "p", ";">>
E_x2F == <<"&", "#", "x", "2", "F", ";">>
E_47 == <<"&", "#", "4", "7", ";">>
E_32 == <<"&", "#", "3", "2", ";">>
E_61 == <<"&", "#", "6", "1", ";">>

(***************************************************************************)
(* markup_parser.rs                                                        *)
(***************************************************************************)
TextStyle(b, i, u) == [bold |-> b, italic |-> i, underline |-> u]
TextStyle_default == TextStyle(FALSE, FALSE, FALSE)
StyledSegment(text, style, link) == [text |-> text, style |-> style, link |-> link]
plain(text) == StyledSegment(text, TextStyle_default, None)

\* decode_entities of markup_parser.rs: the replace chain in its order.
markup_parser_decode_entities(text) ==
  LET s1 == replace(text, E_lt, <<"<">>)
      s2 == replace(s1, E_gt, <<">">>)
      s3 == replace(s2, E_amp, <<"&">>)
      s4 == replace(s3, E_quot, <<"\"">>)
      s5 == replace(s4, E_39, <<"'">>)
      s6 == replace(s5, E_x27, <<"'">>)
      s7 == replace(s6, E_58, <<":">>)
      s8 == replace(s7, E_x3A, <<":">>)
  IN replace(s8, E_nbsp, <<" ">>)

\* merge_segments that leaves out the merge.
merge_segments_NoMerge(segs) == segs

RECURSIVE merge_loop(_, _)
merge_loop(merged, rest) ==
  IF rest = <<>> THEN merged
  ELSE LET segment == Head(rest)
           n == Len(merged)
       IN IF n > 0 /\ merged[n].style = segment.style
                   /\ merged[n].link = segment.link
          THEN merge_loop([merged EXCEPT ![n].text = @ \o segment.text], Tail(rest))
          ELSE merge_loop(Append(merged, segment), Tail(rest))

merge_segments(segs) == merge_loop(<<>>, segs)

segments_to_plain_text(segs) ==
  LET RECURSIVE cat(_)
      cat(k) == IF k > Len(segs) THEN <<>> ELSE segs[k].text \o cat(k + 1)
  IN cat(1)

\* Index of the last character of the run of \w characters that starts at q
\* (q - 1 when s[q] is no word character).
RECURSIVE WordRunEnd(_, _)
WordRunEnd(s, q) ==
  IF q <= Len(s) /\ IsWordChar(s[q]) THEN WordRunEnd(s, q + 1) ELSE q - 1

NoMatch == [end |-> 0]

\* tag_pattern  <(/?)(\w+)(?:\s+[^>]*)?>  anchored at p: the index of the
\* closing ">", group 1 and group 2.
tag_pattern_at(s, p) ==
  IF s[p] # "<" THEN NoMatch
  ELSE LET closing == p + 1 <= Len(s) /\ s[p + 1] = "/"
           q == IF closing THEN p + 2 ELSE p + 1
           w == WordRunEnd(s, q)
           m(e) == [end |-> e, start |-> p, is_closing |-> closing,
                    tag_name |-> to_lowercase(SubSeq(s, q, w))]
       IN IF w < q \/ w + 1 > Len(s) THEN NoMatch
          ELSE IF s[w + 1] = ">" THEN m(w + 1)
          ELSE IF IsSpace(s[w + 1])
               THEN LET e == IndexFrom(s, ">", w + 2)
                    IN IF e = 0 THEN NoMatch ELSE m(e)
               ELSE NoMatch

\* captures_iter: the leftmost match that starts after the first `from`
\* characters.
tag_pattern_next(s, from) ==
  LET P == {p \in (from + 1)..Len(s) : tag_pattern_at(s, p).end > 0}
  IN IF P = {} THEN NoMatch ELSE tag_pattern_at(s, Min(P))

T_href == <<"h", "r", "e", "f", "=">>

\* href_pattern  href=["']([^"']+)["']  anchored at p: group 1, or None.
href_pattern_at(t, p) ==
  IF ~StartsWithAt(t, T_href, p) THEN None
  ELSE LET o == p + Len(T_href)
           K == {k \in (o + 1)..Len(t) : IsQuote(t[k])}
       IN IF o > Len(t) \/ ~IsQuote(t[o]) \/ K = {} \/ Min(K) = o + 1 THEN None
          ELSE Some(SubSeq(t, o + 1, Min(K) - 1))

\* href_pattern.captures(tag_content): group 1 of the leftmost match.
href_pattern_captures(t) ==
  LET P == {p \in 1..Len(t) : href_pattern_at(t, p) # None}
  IN IF P = {} THEN None ELSE href_pattern_at(t, Min(P))

\* push_text that pushes the run as it is, without decode_entities.
push_text_NoDecode(segs, text, style, link) ==
  IF text = <<>> THEN segs ELSE Append(segs, StyledSegment(text, style, link))

\* segments.push of a text run: nothing is pushed for an empty run.
push_text(segs, text, style, link) ==
  IF text = <<>> THEN segs
  ELSE LET decoded == markup_parser_decode_entities(text)
       IN IF decoded = <<>> THEN segs
          ELSE Append(segs, StyledSegment(decoded, style, link))

Frame(tag, style, link) == [tag |-> tag, style |-> style, link |-> link]

\* parse_markup is entered: its locals are initialised.
parse_markup_begin ==
  /\ pc = "call"
  /\ pc' = "scan"
  /\ segments' = <<>>
  /\ current_style' = TextStyle_default
  /\ current_link' = None
  /\ style_stack' = <<>>
  /\ last_end' = 0
  /\ UNCHANGED <<html, svars, avars, ovars>>

\* A closing tag that resets the style instead of restoring the saved one.
parse_markup_close_ResetsStyle ==
  /\ pc = "scan"
  /\ LET cap == tag_pattern_next(html, last_end)
     IN /\ cap.end > 0
        /\ cap.is_closing
        /\ segments' = push_text(segments, SubSeq(html, last_end + 1, cap.start - 1),
                                 current_style, current_link)
        /\ last_end' = cap.end
        /\ IF style_stack # <<>>
           THEN /\ style_stack' = SubSeq(style_stack, 1, Len(style_stack) - 1)
                /\ current_style' = TextStyle_default
                /\ current_link' = None
           ELSE UNCHANGED <<style_stack, current_style, current_link>>
  /\ UNCHANGED <<html, pc, svars, avars, ovars>>

\* One iteration of the for loop, on a closing tag.
parse_markup_close ==
  /\ pc = "scan"
  /\ LET cap == tag_pattern_next(html, last_end)
     IN /\ cap.end > 0
        /\ cap.is_closing
        /\ segments' = push_text(segments, SubSeq(html, last_end + 1, cap.start - 1),
                                 current_style, current_link)
        /\ last_end' = cap.end
        /\ IF style_stack # <<>>
           THEN LET top == style_stack[Len(style_stack)]
                IN /\ style_stack' = SubSeq(style_stack, 1, Len(style_stack) - 1)
                   /\ IF top.tag = cap.tag_name
                      THEN /\ current_style' = top.style
                           /\ current_link' = top.link
                      ELSE UNCHANGED <<current_style, current_link>>
           ELSE UNCHANGED <<style_stack, current_style, current_link>>
  /\ UNCHANGED <<html, pc, svars, avars, ovars>>

\* The opening-tag iteration that opens a link without forcing underline.
parse_markup_open_NoUnderline ==
  /\ pc = "scan"
  /\ LET cap == tag_pattern_next(html, last_end)
     IN /\ cap.end > 0
        /\ ~cap.is_closing
        /\ LET segs == push_text(segments, SubSeq(html, last_end + 1, cap.start - 1),
                                 current_style, current_link)
               pushed(tag) == Append(style_stack, Frame(tag, current_style, current_link))
               name == cap.tag_name
           IN /\ last_end' = cap.end
              /\ IF name \in {<<"b">>, <<"s", "t", "r", "o", "n", "g">>}
                 THEN /\ style_stack' = pushed(<<"b">>)
                      /\ current_style' = [current_style EXCEPT !.bold = TRUE]
                      /\ UNCHANGED current_link
                      /\ segments' = segs
                 ELSE IF name \in {<<"i">>, <<"e", "m">>}
                 THEN /\ style_stack' = pushed(<<"i">>)
                      /\ current_style' = [current_style EXCEPT !.italic = TRUE]
                      /\ UNCHANGED current_link
                      /\ segments' = segs
                 ELSE IF name = <<"u">>
                 THEN /\ style_stack' = pushed(<<"u">>)
                      /\ current_style' = [current_style EXCEPT !.underline = TRUE]
                      /\ UNCHANGED current_link
                      /\ segments' = segs
                 ELSE IF name = <<"a">>
                 THEN LET href_cap == href_pattern_captures(SubSeq(html, cap.start, cap.end))
                      IN IF href_cap # None
                         THEN /\ style_stack' = pushed(<<"a">>)
                              /\ current_link' = Some(markup_parser_decode_entities(href_cap[1]))
                              /\ UNCHANGED current_style
                              /\ segments' = segs
                         ELSE /\ UNCHANGED <<style_stack, current_style, current_link>>
                              /\ segments' = segs
                 ELSE IF name \in {<<"b", "r">>, <<"p">>}
                 THEN /\ segments' = Append(segs, plain(<<"\n">>))
                      /\ UNCHANGED <<style_stack, current_style, current_link>>
                 ELSE /\ segments' = segs
                      /\ UNCHANGED <<style_stack, current_style, current_link>>
  /\ UNCHANGED <<html, pc, svars, avars, ovars>>

\* One iteration of the for loop, on an opening tag.
parse_markup_open ==
  /\ pc = "scan"
  /\ LET cap == tag_pattern_next(html, last_end)
     IN /\ cap.end > 0
        /\ ~cap.is_closing
        /\ LET segs == push_text(segments, SubSeq(html, last_end + 1, cap.start - 1),
                                 current_style, current_link)
               pushed(tag) == Append(style_stack, Frame(tag, current_style, current_link))
               name == cap.tag_name
           IN /\ last_end' = cap.end
              /\ IF name \in {<<"b">>, <<"s", "t", "r", "o", "n", "g">>}
                 THEN /\ style_stack' = pushed(<<"b">>)
                      /\ current_style' = [current_style EXCEPT !.bold = TRUE]
                      /\ UNCHANGED current_link
                      /\ segments' = segs
                 ELSE IF name \in {<<"i">>, <<"e", "m">>}
                 THEN /\ style_stack' = pushed(<<"i">>)
                      /\ current_style' = [current_style EXCEPT !.italic = TRUE]
                      /\ UNCHANGED current_link
                      /\ segments' = segs
                 ELSE IF name = <<"u">>
                 THEN /\ style_stack' = pushed(<<"u">>)
                      /\ current_style' = [current_style EXCEPT !.underline = TRUE]
                      /\ UNCHANGED current_link
                      /\ segments' = segs
                 ELSE IF name = <<"a">>
                 THEN LET href_cap == href_pattern_captures(SubSeq(html, cap.start, cap.end))
                      IN IF href_cap # None
                         THEN /\ style_stack' = pushed(<<"a">>)
                              /\ current_link' = Some(markup_parser_decode_entities(href_cap[1]))
                              /\ current_style' = [current_style EXCEPT !.underline = TRUE]
                              /\ segments' = segs
                         ELSE /\ UNCHANGED <<style_stack, current_style, current_link>>
                              /\ segments' = segs
                 ELSE IF name \in {<<"b", "r">>, <<"p">>}
                 THEN /\ segments' = Append(segs, plain(<<"\n">>))
                      /\ UNCHANGED <<style_stack, current_style, current_link>>
                 ELSE /\ segments' = segs
                      /\ UNCHANGED <<style_stack, current_style, current_link>>
  /\ UNCHANGED <<html, pc, svars, avars, ovars>>

\* After the loop: the remaining text, the "no tags" fallback, the merge.
parse_markup_end ==
  /\ pc = "scan"
  /\ tag_pattern_next(html, last_end).end = 0
  /\ LET segs1 == push_text(segments, SubSeq(html, last_end + 1, Len(html)),
                            current_style, current_link)
         segs2 == IF segs1 = <<>> /\ html # <<>>
                  THEN <<plain(markup_parser_decode_entities(html))>>
                  ELSE segs1
     IN segments' = merge_segments(segs2)
  /\ pc' = "done"
  /\ last_end' = Len(html)
  /\ UNCHANGED <<html, current_style, current_link, style_stack, svars, avars, ovars>>

(***************************************************************************)
(* sanitizer.rs                                                            *)
(***************************************************************************)
\* decode_entities of sanitizer.rs with the "&amp;" replacement moved first.
sanitizer_decode_entities_AmpFirst(text) ==
  LET s0 == replace(text, E_amp, <<"&">>)
      s1 == replace(s0, E_lt, <<"<">>)
      s2 == replace(s1, E_gt, <<">">>)
      s3 == replace(s2, E_quot, <<"\"">>)
      s4 == replace(s3, E_39, <<"'">>)
      s5 == replace(s4, E_x2F, <<"/">>)
      s6 == replace(s5, E_x27, <<"'">>)
      s7 == replace(s6, E_47, <<"/">>)
      s8 == replace(s7, E_32, <<" ">>)
      s9 == replace(s8, E_58, <<":">>)
      s10 == replace(s9, E_x3A, <<":">>)
  IN replace(s10, E_61, <<"=">>)

\* decode_entities of sanitizer.rs: the replace chain in its order.
sanitizer_decode_entities(text) ==
  LET s1 == replace(text, E_lt, <<"<">>)
      s2 == replace(s1, E_gt, <<">">>)
      s3 == replace(s2, E_quot, <<"\"">>)
      s4 == replace(s3, E_39, <<"'">>)
      s5 == replace(s4, E_x2F, <<"/">>)
      s6 == replace(s5, E_x27, <<"'">>)
      s7 == replace(s6, E_47, <<"/">>)
      s8 == replace(s7, E_32, <<" ">>)
      s9 == replace(s8, E_58, <<":">>)
      s10 == replace(s9, E_x3A, <<":">>)
      s11 == replace(s10, E_61, <<"=">>)
  IN replace(s11, E_amp, <<"&">>)

\* Regex <[^>]*> with replace_all(.., ""): every "<" that has a ">" after it
\* is removed together with the text up to the first such ">".
RECURSIVE tag_regex_replace_all_at(_, _)
tag_regex_replace_all_at(s, i) ==
  LET K == {k \in i..Len(s) : s[k] = "<" /\ IndexFrom(s, ">", k + 1) > 0}
  IN IF K = {} THEN SubSeq(s, i, Len(s))
     ELSE SubSeq(s, i, Min(K) - 1)
            \o tag_regex_replace_all_at(s, IndexFrom(s, ">", Min(K) + 1) + 1)

\* replace_all that puts a space where it removes a tag.
RECURSIVE tag_regex_replace_all_Pad_at(_, _)
tag_regex_replace_all_Pad_at(s, i) ==
  LET K == {k \in i..Len(s) : s[k] = "<" /\ IndexFrom(s, ">", k + 1) > 0}
  IN IF K = {} THEN SubSeq(s, i, Len(s))
     ELSE SubSeq(s, i, Min(K) - 1) \o <<" ">>
            \o tag_regex_replace_all_Pad_at(s, IndexFrom(s, ">", Min(K) + 1) + 1)

tag_regex_replace_all_Pad(s) == tag_regex_replace_all_Pad_at(s, 1)

tag_regex_replace_all(s) ==
  IF \A k \in 1..Len(s) : s[k] # "<" THEN s ELSE tag_regex_replace_all_at(s, 1)

\* decode_entities is called on html.
decode_entities_call ==
  /\ pc = "decode_entities"
  /\ buf' = sanitizer_decode_entities(html)
  /\ pc' = "decode_entities:done"
  /\ UNCHANGED <<html, results, pvars, avars, ovars>>

\* strip_html: let without_actual_tags = tag_regex.replace_all(html, "")
strip_html_tags ==
  /\ pc = "strip_html"
  /\ buf' = tag_regex_replace_all(html)
  /\ pc' = "strip_html:decode"
  /\ UNCHANGED <<html, results, pvars, avars, ovars>>

\* strip_html: let decoded = decode_entities(&without_actual_tags)
strip_html_decode ==
  /\ pc = "strip_html:decode"
  /\ buf' = sanitizer_decode_entities(buf)
  /\ pc' = "strip_html:final"
  /\ UNCHANGED <<html, results, pvars, avars, ovars>>

\* strip_html that returns the decoded text without the second strip.
strip_html_final_NoStrip ==
  /\ pc = "strip_html:final"
  /\ buf' = buf
  /\ pc' = "strip_html:done"
  /\ UNCHANGED <<html, results, pvars, avars, ovars>>

\* strip_html: let result = tag_regex_final.replace_all(&decoded, "")
strip_html_final ==
  /\ pc = "strip_html:final"
  /\ buf' = tag_regex_replace_all(buf)
  /\ pc' = "strip_html:done"
  /\ UNCHANGED <<html, results, pvars, avars, ovars>>

T_a == <<"<", "a">>
T_href4 == <<"h", "r", "e", "f">>
T_close_a == <<"<", "/", "a", ">">>
T_https == <<"h", "t", "t", "p", "s", ":", "/", "/">>
T_http == <<"h", "t", "t", "p", ":", "/", "/">>
T_mailto == <<"m", "a", "i", "l", "t", "o", ":">>

\* Index of the first character at or after i that is no white space.
RECURSIVE SkipSpaces(_, _)
SkipSpaces(s, i) ==
  IF i <= Len(s) /\ IsSpace(s[i]) THEN SkipSpaces(s, i + 1) ELSE i

\* The part  \s*=\s*["']([^"']+)["'][^>]*>([^<]*)</a>  of href_regex,
\* anchored at i.
href_regex_tail(s, i) ==
  LET a == SkipSpaces(s, i)
      b == SkipSpaces(s, a + 1)
      Q == {k \in (b + 1)..Len(s) : IsQuote(s[k])}
      c == IF Q = {} THEN 0 ELSE Min(Q)
      g == IF c = 0 THEN 0 ELSE IndexFrom(s, ">", c + 1)
      l == IF g = 0 THEN 0 ELSE IndexFrom(s, "<", g + 1)
  IN IF /\ a <= Len(s) /\ s[a] = "="
        /\ b <= Len(s) /\ IsQuote(s[b])
        /\ c > b + 1
        /\ g > 0
        /\ l > 0 /\ StartsWithAt(s, T_close_a, l)
     THEN [end |-> l + 3, url |-> SubSeq(s, b + 1, c - 1),
           text |-> SubSeq(s, g + 1, l - 1)]
     ELSE NoMatch

\* href_regex  <a\s+[^>]*href\s*=\s*["']([^"']+)["'][^>]*>([^<]*)</a>
\* anchored at p; the greedy [^>]* takes the last "href" that lets the rest
\* match.
href_regex_at(s, p) ==
  IF ~(StartsWithAt(s, T_a, p) /\ p + 2 <= Len(s) /\ IsSpace(s[p + 2]))
  THEN NoMatch
  ELSE LET gt == IndexFrom(s, ">", p + 2)
           lim == IF gt = 0 THEN Len(s) ELSE gt - 1
           H == {h \in (p + 3)..lim :
                   StartsWithAt(s, T_href4, h) /\ href_regex_tail(s, h + 4).end > 0}
       IN IF H = {} THEN NoMatch ELSE href_regex_tail(s, Max(H) + 4)

\* href_regex.captures_iter(s): the non-overlapping matches, left to right.
RECURSIVE href_regex_captures_from(_, _)
href_regex_captures_from(s, pos) ==
  LET P == {p \in pos..Len(s) : s[p] = "<" /\ href_regex_at(s, p).end > 0}
  IN IF P = {} THEN <<>>
     ELSE LET cap == href_regex_at(s, Min(P))
          IN <<cap>> \o href_regex_captures_from(s, cap.end + 1)

href_regex_captures_iter(s) == href_regex_captures_from(s, 1)

is_safe_url(url) ==
  starts_with(url, T_https) \/ starts_with(url, T_http) \/ starts_with(url, T_mailto)

\* The filter_map of the first pass.
RECURSIVE filter_safe(_)
filter_safe(caps) ==
  IF caps = <<>> THEN <<>>
  ELSE LET cap == Head(caps)
       IN IF is_safe_url(cap.url)
          THEN <<(<<cap.url, cap.text>>)>> \o filter_safe(Tail(caps))
          ELSE filter_safe(Tail(caps))

\* The for loop of the second pass.
RECURSIVE push_new_safe(_, _)
push_new_safe(res, caps) ==
  IF caps = <<>> THEN res
  ELSE LET cap == Head(caps)
       IN IF is_safe_url(cap.url) /\ ~\E k \in 1..Len(res) : res[k][1] = cap.url
          THEN push_new_safe(Append(res, <<cap.url, cap.text>>), Tail(caps))
          ELSE push_new_safe(res, Tail(caps))

\* The second pass without the scheme test.
RECURSIVE push_new(_, _)
push_new(res, caps) ==
  IF caps = <<>> THEN res
  ELSE LET cap == Head(caps)
       IN IF ~\E k \in 1..Len(res) : res[k][1] = cap.url
          THEN push_new(Append(res, <<cap.url, cap.text>>), Tail(caps))
          ELSE push_new(res, Tail(caps))

\* extract_hrefs: the anchors of the text as it is.
extract_hrefs_raw ==
  /\ pc = "extract_hrefs"
  /\ results' = filter_safe(href_regex_captures_iter(html))
  /\ pc' = "extract_hrefs:decoded"
  /\ UNCHANGED <<html, buf, pvars, avars, ovars>>

\* extract_hrefs whose second pass does not test the scheme.
extract_hrefs_decoded_NoSchemeTest ==
  /\ pc = "extract_hrefs:decoded"
  /\ buf' = sanitizer_decode_entities(html)
  /\ results' = push_new(results, href_regex_captures_iter(buf'))
  /\ pc' = "extract_hrefs:done"
  /\ UNCHANGED <<html, pvars, avars, ovars>>

\* extract_hrefs whose second pass reads the text as it is, not decoded.
extract_hrefs_decoded_NoDecode ==
  /\ pc = "extract_hrefs:decoded"
  /\ buf' = html
  /\ results' = push_new_safe(results, href_regex_captures_iter(buf'))
  /\ pc' = "extract_hrefs:done"
  /\ UNCHANGED <<html, pvars, avars, ovars>>

\* extract_hrefs: the anchors of the decoded text, those not found before.
extract_hrefs_decoded ==
  /\ pc = "extract_hrefs:decoded"
  /\ buf' = sanitizer_decode_entities(html)
  /\ results' = push_new_safe(results, href_regex_captures_iter(buf'))
  /\ pc' = "extract_hrefs:done"
  /\ UNCHANGED <<html, pvars, avars, ovars>>

\* strip_html as a function of its argument: strip, decode, strip.
strip_html(h) ==
  tag_regex_replace_all(sanitizer_decode_entities(tag_regex_replace_all(h)))

\* allowed_tags of sanitize_html.
allowed_tags == {<<"b">>, <<"i">>, <<"u">>, <<"a">>, <<"b", "r">>, <<"p">>}

\* sanitize_html on a well-nested text of tags without attributes and of
\* text without "<", ">" and "&", from the i-th character on: the tags of
\* allowed_tags and the text are kept (the test test_preserves_allowed_tags
\* has output == input there), the other tags are dropped.
RECURSIVE sanitize_html_from(_, _)
sanitize_html_from(h, i) ==
  LET cap == tag_pattern_next(h, i - 1)
  IN IF cap.end = 0 THEN SubSeq(h, i, Len(h))
     ELSE SubSeq(h, i, cap.start - 1)
            \o (IF cap.tag_name \in allowed_tags
                THEN SubSeq(h, cap.start, cap.end) ELSE <<>>)
            \o sanitize_html_from(h, cap.end + 1)

sanitize_html(h) == sanitize_html_from(h, 1)

\* The plain-text path on the text parse_markup was called on:
\* strip_html(&sanitize_html(html)).
strip_html_of_sanitized ==
  /\ pc = "done"
  /\ buf' = strip_html(sanitize_html(html))
  /\ pc' = "done:plain"
  /\ UNCHANGED <<html, results, pvars, avars, ovars>>

\* The tag names of the alternation (?:b|i|u|a|p|br) of has_rich_content.
RichTagNames == {<<"b">>, <<"i">>, <<"u">>, <<"a">>, <<"p">>, <<"b", "r">>}

\* Regex  <\s*/?(?:b|i|u|a|p|br)(?:\s+[^>]*)?>  anchored at p.
rich_pattern_at(s, p) ==
  /\ s[p] = "<"
  /\ LET a == SkipSpaces(s, p + 1)
         q == IF a <= Len(s) /\ s[a] = "/" THEN a + 1 ELSE a
     IN \E name \in RichTagNames :
          /\ StartsWithAt(s, name, q)
          /\ LET r == q + Len(name)
             IN /\ r <= Len(s)
                /\ \/ s[r] = ">"
                   \/ IsSpace(s[r]) /\ IndexFrom(s, ">", r + 1) > 0

\* tag_pattern.is_match(text)
has_rich_content(text) == \E p \in 1..Len(text) : rich_pattern_at(text, p)

\* has_rich_content is called on html.
has_rich_content_call ==
  /\ pc = "has_rich_content"
  /\ rich' = has_rich_content(html)
  /\ pc' = "has_rich_content:done"
  /\ UNCHANGED <<html, pvars, svars, avars, cvars>>

\* has_rich_content is called on the text parse_markup was called on.
has_rich_content_of_parsed ==
  /\ pc = "done"
  /\ rich' = has_rich_content(html)
  /\ pc' = "done:rich"
  /\ UNCHANGED <<html, pvars, svars, avars, cvars>>

(***************************************************************************)
(* cosmic-notifications-config/src/lib.rs                                  *)
(***************************************************************************)
\* AppRule, with the fields find_app_rule reads and `enabled`.
AppRule(app_name, desktop_entry, enabled) ==
  [app_name |-> app_name, desktop_entry |-> desktop_entry, enabled |-> enabled]

\* app_rules.iter().find(|r| r.desktop_entry.as_deref() == Some(entry)),
\* from the k-th rule on.
RECURSIVE find_desktop_entry(_, _, _)
find_desktop_entry(rules, entry, k) ==
  IF k > Len(rules) THEN None
  ELSE IF rules[k].desktop_entry = Some(entry) THEN Some(k)
  ELSE find_desktop_entry(rules, entry, k + 1)

\* app_rules.iter().find(|r| r.app_name == app_name &&
\* r.desktop_entry.is_none()), from the k-th rule on.
RECURSIVE find_app_name(_, _, _)
find_app_name(rules, app_name, k) ==
  IF k > Len(rules) THEN None
  ELSE IF rules[k].app_name = app_name /\ rules[k].desktop_entry = None THEN Some(k)
  ELSE find_app_name(rules, app_name, k + 1)

\* The fall-back find without the desktop_entry.is_none() test.
RECURSIVE find_app_name_only(_, _, _)
find_app_name_only(rules, app_name, k) ==
  IF k > Len(rules) THEN None
  ELSE IF rules[k].app_name = app_name THEN Some(k)
  ELSE find_app_name_only(rules, app_name, k + 1)

\* find_app_rule whose fall-back takes any rule of the application.
find_app_rule_AnyEntry(rules, app_name, desktop_entry) ==
  LET by_entry == IF desktop_entry # None
                  THEN find_desktop_entry(rules, desktop_entry[1], 1)
                  ELSE None
  IN IF by_entry # None THEN by_entry
     ELSE find_app_name_only(rules, app_name, 1)

\* NotificationsConfig::find_app_rule
find_app_rule(rules, app_name, desktop_entry) ==
  LET by_entry == IF desktop_entry # None
                  THEN find_desktop_entry(rules, desktop_entry[1], 1)
                  ELSE None
  IN IF by_entry # None THEN by_entry
     ELSE find_app_name(rules, app_name, 1)

\* find_app_rule is called with the arguments of lookup.
find_app_rule_call ==
  /\ pc = "find_app_rule"
  /\ rule' = find_app_rule(app_rules, lookup.app_name, lookup.desktop_entry)
  /\ pc' = "find_app_rule:done"
  /\ UNCHANGED <<html, pvars, svars, avars, rich, app_rules, lookup>>

NoLookup == [app_name |-> "", desktop_entry |-> None]

\* NotificationsConfig::default() and no call of find_app_rule.
ConfigIdle ==
  /\ app_rules = <<>>
  /\ lookup = NoLookup
  /\ rule = None

\* No function of the markup modules is running.
MarkupIdle ==
  /\ html = <<>>
  /\ pc = "idle"
  /\ segments = <<>>
  /\ current_style = TextStyle_default
  /\ current_link = None
  /\ style_stack = <<>>
  /\ last_end = 0
  /\ buf = <<>>
  /\ results = <<>>
  /\ rich = FALSE

\* parse_markup is about to be called on h.
MarkupCall(h) ==
  /\ html = h
  /\ pc = "call"
  /\ segments = <<>>
  /\ current_style = TextStyle_default
  /\ current_link = None
  /\ style_stack = <<>>
  /\ last_end = 0
  /\ buf = <<>>
  /\ results = <<>>
  /\ rich = FALSE

\* The audio layer is at rest.
AudioIdle ==
  /\ fs = {}
  /\ env = [XDG_DATA_HOME |-> None, HOME |-> None]
  /\ threads = EmptyBag
  /\ log = {}
  /\ ncalls = 0
  /\ ret = [fn |-> "none", arg |-> <<>>, result |-> [tag |-> "None"]]

\* The concatenation of a sequence of texts.
RECURSIVE Concat(_)
Concat(ss) == IF ss = <<>> THEN <<>> ELSE Head(ss) \o Concat(Tail(ss))

\* All concatenations of at most n texts of F.
Texts(F, n) == UNION {{Concat(f) : f \in [1..k -> F]} : k \in 0..n}

MarkupFragments ==
  { <<"x">>, <<"<", "b", ">">>, <<"<", "/", "b", ">">>, <<"<", "i", ">">>,
    <<"<", "b", "r", ">">>,
    <<"<", "a", " ", "h", "r", "e", "f", "=", "'", "h", "'", ">">>,
    <<"<", "/", "a", ">">>, E_lt }

MarkupNext ==
  \/ parse_markup_begin
  \/ parse_markup_close
  \/ parse_markup_open
  \/ parse_markup_end

\* parse_markup on every text made of at most MaxFrags fragments.
MarkupInit ==
  /\ AudioIdle
  /\ ConfigIdle
  /\ \E h \in Texts(MarkupFragments, MaxFrags) : MarkupCall(h)

SpecMarkup == MarkupInit /\ [][MarkupNext]_vars

StyleTags == {"b", "i", "u"}
OpenTag(t) == <<"<", t, ">">>
CloseTag(t) == <<"<", "/", t, ">">>

\* The well-nested texts of exactly k tokens (a token is the character x, an
\* opening or a closing styling tag) that go on from inside the open tags
\* `open` (innermost last) and close all of them.
RECURSIVE WellNested(_, _)
WellNested(k, open) ==
  IF k = 0 THEN (IF open = <<>> THEN {<<>>} ELSE {})
  ELSE IF Len(open) > k THEN {}
  ELSE {<<"x">> \o r : r \in WellNested(k - 1, open)}
       \cup UNION {{OpenTag(t) \o r : r \in WellNested(k - 1, Append(open, t))}
                     : t \in StyleTags}
       \cup (IF open = <<>> THEN {}
             ELSE {CloseTag(open[Len(open)]) \o r
                     : r \in WellNested(k - 1, SubSeq(open, 1, Len(open) - 1))})

NestingInputs == UNION {WellNested(k, <<>>) : k \in 0..MaxNest}

\* parse_markup on every well-nested text of at most MaxNest tokens.
NestingInit ==
  /\ AudioIdle
  /\ ConfigIdle
  /\ \E h \in NestingInputs : MarkupCall(h)

SpecNesting == NestingInit /\ [][MarkupNext]_vars

ConcordNext ==
  \/ MarkupNext
  \/ strip_html_of_sanitized

\* parse_markup and then strip_html(sanitize_html(..)) on every well-nested
\* text of at most MaxNest tokens.
SpecConcord == NestingInit /\ [][ConcordNext]_vars

\* The names parse_markup styles text for, each with the tag kind it pushes.
AliasTags ==
  { <<"b">>, <<"s", "t", "r", "o", "n", "g">>, <<"i">>, <<"e", "m">>, <<"u">> }
OpenNamed(n) == <<"<">> \o n \o <<">">>
CloseNamed(n) == <<"<", "/">> \o n \o <<">">>

\* The well-nested texts of exactly k tokens (the character x, an opening or
\* a closing tag of AliasTags) that go on from inside the open elements
\* `open` (innermost last) and close all of them.
RECURSIVE WellNestedNamed(_, _)
WellNestedNamed(k, open) ==
  IF k = 0 THEN (IF open = <<>> THEN {<<>>} ELSE {})
  ELSE IF Len(open) > k THEN {}
  ELSE {<<"x">> \o r : r \in WellNestedNamed(k - 1, open)}
       \cup UNION {{OpenNamed(n) \o r : r \in WellNestedNamed(k - 1, Append(open, n))}
                     : n \in AliasTags}
       \cup (IF open = <<>> THEN {}
             ELSE {CloseNamed(open[Len(open)]) \o r
                     : r \in WellNestedNamed(k - 1, SubSeq(open, 1, Len(open) - 1))})

AliasInputs == UNION {WellNestedNamed(k, <<>>) : k \in 0..(MaxFrags + 1)}

\* parse_markup on every well-nested text of b, strong, i, em and u elements
\* of at most MaxFrags + 1 tokens.
AliasInit ==
  /\ AudioIdle
  /\ ConfigIdle
  /\ \E h \in AliasInputs : MarkupCall(h)

SpecAlias == AliasInit /\ [][MarkupNext]_vars

\* A function of sanitizer.rs named by p is about to be called on h.
SanitizerCall(p, h) ==
  /\ html = h
  /\ pc = p
  /\ segments = <<>>
  /\ current_style = TextStyle_default
  /\ current_link = None
  /\ style_stack = <<>>
  /\ last_end = 0
  /\ buf = <<>>
  /\ results = <<>>
  /\ rich = FALSE

\* The entities of decode_entities of sanitizer.rs with their characters.
SanitizerEntities ==
  { <<E_lt, "<">>, <<E_gt, ">">>, <<E_quot, "\"">>, <<E_39, "'">>,
    <<E_x2F, "/">>, <<E_x27, "'">>, <<E_47, "/">>, <<E_32, " ">>,
    <<E_58, ":">>, <<E_x3A, ":">>, <<E_61, "=">>, <<E_amp, "&">> }

DecodeFragments ==
  { <<"&">>, <<"a", "m", "p", ";">>, <<"l", "t", ";">>, <<"g", "t", ";">>,
    <<"#", "3", "9", ";">>, <<"#", "x", "3", "A", ";">>,
    <<"q", "u", "o", "t", ";">>, E_amp, <<"x">> }

\* Every entity alone, and every entity with its "&" written "&amp;".
EntityInputs ==
  {e[1] : e \in SanitizerEntities} \cup {E_amp \o Tail(e[1]) : e \in SanitizerEntities}

\* decode_entities on every text made of at most MaxFrags fragments.
DecodeInit ==
  /\ AudioIdle
  /\ ConfigIdle
  /\ \E h \in Texts(DecodeFragments, MaxFrags) \cup EntityInputs :
       SanitizerCall("decode_entities", h)

DecodeNext == decode_entities_call

SpecDecode == DecodeInit /\ [][DecodeNext]_vars

StripFragments ==
  { <<"<">>, <<">">>, <<"x">>, E_lt, E_gt, E_amp, <<"l", "t", ";">>,
    <<"g", "t", ";">> }

\* strip_html on every text made of at most MaxFrags fragments.
StripInit ==
  /\ AudioIdle
  /\ ConfigIdle
  /\ \E h \in Texts(StripFragments, MaxFrags) : SanitizerCall("strip_html", h)

StripNext ==
  \/ strip_html_tags
  \/ strip_html_decode
  \/ strip_html_final

SpecStrip == StripInit /\ [][StripNext]_vars

Q2 == <<"\"">>
AnchorOpens ==
  { <<"<", "a", " ", "h", "r", "e", "f", "=">> \o Q2,
    E_lt \o <<"a", " ", "h", "r", "e", "f", "=">> \o E_quot }
AnchorCloses ==
  { Q2 \o <<">", "t", "<", "/", "a", ">">>,
    E_quot \o E_gt \o <<"s">> \o E_lt \o <<"/", "a">> \o E_gt }
T_js == <<"j", "a", "v", "a", "s", "c", "r", "i", "p", "t">>
AnchorUrls ==
  { T_https \o <<"e">>, T_http \o <<"e">>, T_mailto \o <<"e">>,
    T_js \o <<":", "x">>,
    <<"h", "t", "t", "p", "s">> \o E_58 \o <<"/", "/", "e">>,
    T_js \o E_x3A \o <<"x">> }

\* An anchor element, literal or entity-encoded, around each of the urls.
AnchorTexts ==
  {o \o u \o c : o \in AnchorOpens, u \in AnchorUrls, c \in AnchorCloses}

\* extract_hrefs on every text made of at most MaxAnchors anchors.
HrefsInit ==
  /\ AudioIdle
  /\ ConfigIdle
  /\ \E h \in Texts(AnchorTexts, MaxAnchors) : SanitizerCall("extract_hrefs", h)

HrefsNext ==
  \/ extract_hrefs_raw
  \/ extract_hrefs_decoded

SpecHrefs == HrefsInit /\ [][HrefsNext]_vars

TaggedFragments ==
  { <<"x">>, <<"y">>, <<" ">>, <<"<", "b", ">">>, <<"<", "/", "b", ">">>,
    <<"<", "b", "r", ">">>,
    <<"<", "a", " ", "h", "r", "e", "f", "=">> \o Q2 \o <<"h">> \o Q2 \o <<">">> }

\* strip_html on every text made of at most MaxFrags text characters and
\* tags.
TaggedInit ==
  /\ AudioIdle
  /\ ConfigIdle
  /\ \E h \in Texts(TaggedFragments, MaxFrags) : SanitizerCall("strip_html", h)

SpecTagged == TaggedInit /\ [][StripNext]_vars

\* An opening anchor tag with the attribute text attrs.
AnchorOpenTag(attrs) == <<"<", "a", " ">> \o attrs \o <<">">>

\* The href values of the anchors, as written and entity-decoded.
LinkUrls ==
  { << <<"h">>, <<"h">> >>,
    << <<"a">> \o E_amp \o <<"b">>, <<"a", "&", "b">> >> }

LinkFragments ==
  { <<"x">>, <<"<", "b", ">">>, <<"<", "a", ">">>, <<"<", "/", "a", ">">>,
    AnchorOpenTag(<<"d", "a", "t", "a", "-">> \o T_href \o Q2 \o <<"h">> \o Q2) }
    \cup {AnchorOpenTag(T_href \o Q2 \o u[1] \o Q2) : u \in LinkUrls}

\* parse_markup on every text made of at most MaxFrags text characters,
\* anchor tags and <b> tags.
LinkInit ==
  /\ AudioIdle
  /\ ConfigIdle
  /\ \E h \in Texts(LinkFragments, MaxFrags) : MarkupCall(h)

SpecLink == LinkInit /\ [][MarkupNext]_vars

PlainFragments ==
  { <<"x">>, <<"<">>, <<">">>, <<"/">>, <<"b">>, <<" ">>, E_lt, E_amp }

\* parse_markup on every text made of at most MaxFrags fragments, among
\* them the texts with angle brackets that form no tag.
PlainInit ==
  /\ AudioIdle
  /\ ConfigIdle
  /\ \E h \in Texts(PlainFragments, MaxFrags) : MarkupCall(h)

SpecPlain == PlainInit /\ [][MarkupNext]_vars

\* The entities of decode_entities of markup_parser.rs with their characters.
MarkupEntities ==
  { <<E_lt, "<">>, <<E_gt, ">">>, <<E_amp, "&">>, <<E_quot, "\"">>,
    <<E_39, "'">>, <<E_x27, "'">>, <<E_58, ":">>, <<E_x3A, ":">>,
    <<E_nbsp, " ">> }

\* Every entity alone, and every entity with its "&" written "&amp;".
MarkupEntityInputs ==
  {e[1] : e \in MarkupEntities} \cup {E_amp \o Tail(e[1]) : e \in MarkupEntities}

\* An anchor element whose href value and whose text are both t.
EntityAnchor(t) ==
  AnchorOpenTag(T_href \o Q2 \o t \o Q2) \o t \o <<"<", "/", "a", ">">>

\* parse_markup on every text made of at most MaxFrags pieces of entities,
\* and on the entities as the href value and the text of an anchor.
EntityInit ==
  /\ AudioIdle
  /\ ConfigIdle
  /\ \E h \in Texts(DecodeFragments, MaxFrags) \cup MarkupEntityInputs
                \cup {EntityAnchor(t) : t \in MarkupEntityInputs} : MarkupCall(h)

SpecEntity == EntityInit /\ [][MarkupNext]_vars

\* Urls with an allowed scheme, two of them with an entity in them.
AmpUrls ==
  { T_mailto \o <<"e">>,
    T_mailto \o <<"a">> \o E_amp \o <<"b">>,
    T_mailto \o <<"a">> \o E_61 \o <<"b">> }

\* An anchor element, literal or entity-encoded, around each of these urls.
AmpAnchorTexts ==
  {o \o u \o c : o \in AnchorOpens, u \in AmpUrls, c \in AnchorCloses}

\* extract_hrefs on every text made of at most MaxAnchors such anchors.
AmpInit ==
  /\ AudioIdle
  /\ ConfigIdle
  /\ \E h \in Texts(AmpAnchorTexts, MaxAnchors) : SanitizerCall("extract_hrefs", h)

SpecAmp == AmpInit /\ [][HrefsNext]_vars

AgreeFragments ==
  { <<"x">>, <<"<", "b", ">">>, <<"<", "/", "b", ">">>, <<"<", "B", ">">>,
    <<"<", "e", "m", ">">>, <<"<">>, <<" ">> }

\* parse_markup and has_rich_content on every text made of at most MaxFrags
\* fragments.
AgreeInit ==
  /\ AudioIdle
  /\ ConfigIdle
  /\ \E h \in Texts(AgreeFragments, MaxFrags) : MarkupCall(h)

AgreeNext ==
  \/ MarkupNext
  \/ has_rich_content_of_parsed

SpecAgree == AgreeInit /\ [][AgreeNext]_vars

UnderlineFragments ==
  { <<"x">>, <<"<", "u", ">">>, <<"<", "/", "u", ">">>, <<"<", "/", "b", ">">>,
    <<"<", "/", "a", ">">>, AnchorOpenTag(T_href \o Q2 \o <<"h">> \o Q2) }

\* parse_markup on every text made of at most MaxFrags fragments, balanced
\* or not.
UnderlineInit ==
  /\ AudioIdle
  /\ ConfigIdle
  /\ \E h \in Texts(UnderlineFragments, MaxFrags) : MarkupCall(h)

SpecUnderline == UnderlineInit /\ [][MarkupNext]_vars

AppNames == {"firefox", "chrome"}
DesktopEntries == {"firefox.desktop", "wrong.desktop"}

\* The rules a configuration can hold.
AppRules ==
  {AppRule(n, e, b) : n \in AppNames,
                      e \in {None} \cup {Some(x) : x \in DesktopEntries},
                      b \in BOOLEAN}

\* find_app_rule with every pair of arguments on every configuration of at
\* most MaxRules rules.
ConfigInit ==
  /\ AudioIdle
  /\ SanitizerCall("find_app_rule", <<>>)
  /\ app_rules \in UNION {[1..n -> AppRules] : n \in 0..MaxRules}
  /\ lookup \in [app_name : AppNames,
                  desktop_entry : {None} \cup {Some(x) : x \in DesktopEntries}]
  /\ rule = None

ConfigNext == find_app_rule_call

SpecConfig == ConfigInit /\ [][ConfigNext]_vars

RichFragments ==
  { <<"<">>, <<">">>, <<"/">>, <<"b">>, <<"r">>, <<"B">>, <<" ">>,
    <<" ", "<", " ">>, <<" ", ">", " ">>, E_lt \o <<"b">> \o E_gt }

\* has_rich_content on every text made of at most MaxFrags fragments.
RichInit ==
  /\ AudioIdle
  /\ ConfigIdle
  /\ \E h \in Texts(RichFragments, MaxFrags) : SanitizerCall("has_rich_content", h)

RichNext == has_rich_content_call

SpecRich == RichInit /\ [][RichNext]_vars

FsConfigs ==
  { {TestSound, MaliciousSound},
    {TestSound, MaliciousSound, BellSound} }

EnvConfigs ==
  { [XDG_DATA_HOME |-> None, HOME |-> Some(HomeDir)],
    [XDG_DATA_HOME |-> Some(XdgDir), HOME |-> Some(HomeDir)] }

NoCall == [fn |-> "none", arg |-> <<>>, result |-> [tag |-> "None"]]

\* Sound files of the name "bell" in user and system directories.
ThemeFiles ==
  { HomeDir \o <<".local", "share", "sounds", "freedesktop", "stereo", "bell.oga">>,
    HomeDir \o <<".local", "share", "sounds", "stereo", "bell.oga">>,
    HomeDir \o <<".local", "share", "sounds", "bell.wav">>,
    XdgDir \o <<"sounds", "bell.ogg">>,
    BellSound,
    <<"usr", "local", "share", "sounds", "bell.mp3">> }

ThemeEnvs == EnvConfigs \cup {[XDG_DATA_HOME |-> None, HOME |-> None]}

\* play_sound_name on every set of these files and every environment.
ThemeInit ==
  /\ fs \in SUBSET ThemeFiles
  /\ env \in ThemeEnvs
  /\ threads = EmptyBag
  /\ log = {}
  /\ ncalls = 0
  /\ ret = NoCall
  /\ MarkupIdle
  /\ ConfigIdle

ThemeNext == \E name \in RequestNames : play_sound_name(name)

SpecTheme == ThemeInit /\ [][ThemeNext]_vars

Init ==
  /\ fs \in FsConfigs
  /\ env \in EnvConfigs
  /\ threads = EmptyBag
  /\ log = {}
  /\ ncalls = 0
  /\ ret = NoCall
  /\ MarkupIdle
  /\ ConfigIdle

Next ==
  \/ \E path \in RequestPaths : play_sound_file(path)
  \/ \E name \in RequestNames : play_sound_name(name)
  \/ \E t \in BagToSet(threads) : \E e \in WorkerErrors :
       play_sound_file_blocking_err(t, e)
  \/ \E t \in BagToSet(threads) : play_sound_file_blocking_append(t)
  \/ \E t \in BagToSet(threads) : play_sound_file_blocking_end(t)

Spec == Init /\ [][Next]_vars

TypeOK ==
  /\ ncalls \in 0..MaxCalls
  /\ ActiveWorkers <= ncalls

(***************************************************************************)
(* Markup parser: claims C6, C7, C20, C21, C28                             *)
(***************************************************************************)
\* C6: parse_markup never returns two adjacent segments that have the same
\* style and the same link.
C6_NoMergeableNeighbours ==
  pc = "done" =>
    \A k \in 1..(Len(segments) - 1) :
      \/ segments[k].style # segments[k + 1].style
      \/ segments[k].link # segments[k + 1].link

\* The parser returned two segments and the line break of a <br> was merged
\* with the text next to it.
C6_Witness ==
  /\ pc = "done"
  /\ Len(segments) = 2
  /\ \E k \in 1..2 :
       /\ Len(segments[k].text) > 1
       /\ \E j \in 1..Len(segments[k].text) : segments[k].text[j] = "\n"
       /\ \E j \in 1..Len(segments[k].text) : segments[k].text[j] = "x"

\* A step of the for loop of parse_markup: one tag is consumed.
TagStep == pc = "scan" /\ pc' = "scan" /\ last_end' # last_end

\* C20: a closing tag whose name differs from the tag kind of the top frame
\* leaves the style stack, the current style and the current link unchanged,
\* and a frame leaves the stack only through a closing tag whose name is
\* that frame's tag kind.
C20_MismatchedCloseIgnored ==
  [][TagStep =>
       LET cap == tag_pattern_next(html, last_end)
           top == style_stack[Len(style_stack)]
       IN /\ (cap.is_closing /\ style_stack # <<>> /\ top.tag # cap.tag_name)
               => UNCHANGED <<style_stack, current_style, current_link>>
          /\ Len(style_stack') < Len(style_stack)
               => (cap.is_closing /\ top.tag = cap.tag_name)]_vars

\* C21: on a well-nested text of b, strong, i, em and u elements every
\* closing tag closes the most recently opened, still open element of its
\* name, and the step that consumes it restores the current style and the
\* current link to the values saved when that element was opened.
C21_MatchingCloseRestores ==
  [][(TagStep /\ tag_pattern_next(html, last_end).is_closing) =>
       /\ style_stack # <<>>
       /\ current_style' = style_stack[Len(style_stack)].style
       /\ current_link' = style_stack[Len(style_stack)].link]_vars

\* The character at k is inside a tag token <...>.
InTag(h, k) ==
  \/ h[k] \in {"<", ">"}
  \/ \E p \in 1..k : h[p] = "<" /\ \A q \in p..k : h[q] # ">"

\* The number of elements <t> that are open at k: openings before k minus
\* closings before k.
OpenCount(h, k, t) ==
  Cardinality({p \in 1..(k - 1) : StartsWithAt(h, OpenTag(t), p)})
    - Cardinality({p \in 1..(k - 1) : StartsWithAt(h, CloseTag(t), p)})

OpenStyleAt(h, k) ==
  TextStyle(OpenCount(h, k, "b") > 0, OpenCount(h, k, "i") > 0,
            OpenCount(h, k, "u") > 0)

\* The text characters of h in order, each with the union of the styling
\* tags open where it stands.
RECURSIVE ExpectedRunsFrom(_, _)
ExpectedRunsFrom(h, k) ==
  IF k > Len(h) THEN <<>>
  ELSE IF InTag(h, k) THEN ExpectedRunsFrom(h, k + 1)
       ELSE <<[ch |-> h[k], style |-> OpenStyleAt(h, k)]>> \o ExpectedRunsFrom(h, k + 1)

ExpectedRuns(h) == ExpectedRunsFrom(h, 1)

\* The characters of a sequence of segments in order, each with its style.
RECURSIVE StyledChars(_)
StyledChars(segs) ==
  IF segs = <<>> THEN <<>>
  ELSE [j \in 1..Len(Head(segs).text) |->
          [ch |-> Head(segs).text[j], style |-> Head(segs).style]]
       \o StyledChars(Tail(segs))

\* C7: on a well-nested text of the styling tags b, i and u, every text
\* character comes out of parse_markup with exactly the union of the styling
\* tags open at its place, and with no link.
C7_NestedStyleIsUnion ==
  (pc = "done" /\ ExpectedRuns(html) # <<>>) =>
    /\ StyledChars(segments) = ExpectedRuns(html)
    /\ \A k \in 1..Len(segments) : segments[k].link = None

\* C28: on a well-nested text of b, i and u tags and text characters no tag
\* the scan consumed shows in the text of the segments (no segment text
\* holds a "<"), and a text made of tags only yields no segment.
C28_NoTagInSegments ==
  pc = "done" =>
    /\ \A k \in 1..Len(segments) :
         \A j \in 1..Len(segments[k].text) : segments[k].text[j] # "<"
    /\ ExpectedRuns(html) = <<>> => segments = <<>>

\* Text inside <b><i><u>...</u></i></b> came out as one segment with the
\* three styles.
C7_Witness ==
  /\ pc = "done"
  /\ Len(segments) = 1
  /\ segments[1].style = TextStyle(TRUE, TRUE, TRUE)
  /\ Len(html) > Len(segments[1].text)

(***************************************************************************)
(* Markup parser, anchors: claims C22, C30                                 *)
(***************************************************************************)
\* The value of the attribute href of the tag text t (None when t has no
\* attribute of that name): an attribute name stands after white space.
HrefAttr(t) ==
  LET P == {p \in 2..Len(t) : IsSpace(t[p - 1]) /\ href_pattern_at(t, p) # None}
  IN IF P = {} THEN None ELSE href_pattern_at(t, Min(P))

\* C22: the step that consumes an opening anchor tag with href="U" sets the
\* current link to the entity-decoded U and underline to true, keeps bold
\* and italic, and saves the style and link before it; the text pushed in a
\* step carries the current style and link; an opening anchor tag without
\* an href attribute changes neither the current style, the current link nor
\* the style stack.
C22_AnchorOpen ==
  [][TagStep =>
       LET cap == tag_pattern_next(html, last_end)
           tag == SubSeq(html, cap.start, cap.end)
           run == SubSeq(html, last_end + 1, cap.start - 1)
       IN /\ (run # <<>> /\ Len(segments') > Len(segments))
               => /\ segments'[Len(segments) + 1].style = current_style
                  /\ segments'[Len(segments) + 1].link = current_link
          /\ (~cap.is_closing /\ cap.tag_name = <<"a">>)
               => IF HrefAttr(tag) # None
                  THEN /\ \A u \in LinkUrls :
                            HrefAttr(tag) = Some(u[1]) => current_link' = Some(u[2])
                       /\ current_style' = [current_style EXCEPT !.underline = TRUE]
                       /\ style_stack' = Append(style_stack,
                                                Frame(<<"a">>, current_style, current_link))
                  ELSE UNCHANGED <<current_style, current_link, style_stack>>]_vars

\* A link goes with underline.
LinkUnderlined(style, link) == link # None => style.underline

\* C30: at every point of parse_markup, for balanced and unbalanced markup
\* alike, the current style and link, every frame of the style stack and
\* every segment pushed or returned have underline = true when they have a
\* link.
C30_LinkImpliesUnderline ==
  pc \in {"scan", "done"} =>
    /\ LinkUnderlined(current_style, current_link)
    /\ \A k \in 1..Len(style_stack) :
         LinkUnderlined(style_stack[k].style, style_stack[k].link)
    /\ \A k \in 1..Len(segments) : LinkUnderlined(segments[k].style, segments[k].link)

\* A mismatched </b> removed the frame of the open link, the text after it
\* came out linked and underlined, and the </a> found the stack empty.
C30_Witness ==
  /\ pc = "done"
  /\ html = AnchorOpenTag(T_href \o Q2 \o <<"h">> \o Q2)
              \o <<"<", "/", "b", ">", "x", "<", "/", "a", ">">>
  /\ style_stack = <<>>
  /\ current_link = Some(<<"h">>)
  /\ segments = <<[text |-> <<"x">>, style |-> TextStyle(FALSE, FALSE, TRUE),
                   link |-> Some(<<"h">>)]>>

(***************************************************************************)
(* Markup parser, text without tags: claim C23                             *)
(***************************************************************************)
\* parse_markup has returned what C23 says: for a text in which the scan
\* finds no tag, one segment with the default style, no link and the decoded
\* text, and for the empty text the empty sequence.
NoTagResult ==
  (pc = "done" /\ tag_pattern_next(html, 0).end = 0) =>
    IF html = <<>> THEN segments = <<>>
    ELSE /\ Len(segments) = 1
         /\ segments[1].style = TextStyle(FALSE, FALSE, FALSE)
         /\ segments[1].link = None
         /\ segments[1].text = markup_parser_decode_entities(html)

\* C23: parse_markup is total: every slice it takes of its input is in
\* range (html[last_end..start] with last_end <= start <= end <= len) and
\* every iteration of its loop consumes at least one character, so the loop
\* ends and the function returns; on a text in which the scan finds no tag
\* it returns exactly one segment with the default style, no link and the
\* decoded text, and on the empty text the empty sequence.
C23_Total ==
  /\ [][TagStep =>
          LET cap == tag_pattern_next(html, last_end)
          IN /\ last_end < cap.start /\ cap.start < cap.end /\ cap.end <= Len(html)
             /\ last_end' = cap.end]_vars
  /\ []NoTagResult

\* A text with a "<" that opens no tag and an entity came back as one plain
\* segment.
C23_Witness ==
  /\ pc = "done"
  /\ html = <<"<", "b", " ">> \o E_lt
  /\ segments = <<[text |-> <<"<", "b", " ", "<">>,
                   style |-> TextStyle(FALSE, FALSE, FALSE), link |-> None]>>

(***************************************************************************)
(* Markup parser, entities: claim C24                                      *)
(***************************************************************************)
\* C24: parse_markup decodes no text twice: for every entity E of the table
\* of its decode_entities, the text "&amp;" followed by the rest of E comes
\* out as the literal text E and not as the character of E, as a text run
\* and as an href value.
C24_NoDoubleDecode ==
  pc = "done" =>
    \A e \in MarkupEntities :
      /\ html = E_amp \o Tail(e[1]) => segments_to_plain_text(segments) = e[1]
      /\ html = EntityAnchor(E_amp \o Tail(e[1])) =>
           /\ segments_to_plain_text(segments) = e[1]
           /\ \A k \in 1..Len(segments) : segments[k].link = Some(e[1])

(***************************************************************************)
(* Sanitizer: claims C8 - C10, C17, C25                                    *)
(***************************************************************************)
\* One pass over s from i: the text up to the next entity of the table is
\* copied, the entity is replaced by its character and skipped; nothing
\* that was produced is looked at again.
RECURSIVE SinglePassFrom(_, _)
SinglePassFrom(s, i) ==
  LET K == {k \in i..Len(s) : \E e \in SanitizerEntities : StartsWithAt(s, e[1], k)}
  IN IF K = {} THEN SubSeq(s, i, Len(s))
     ELSE LET e == CHOOSE x \in SanitizerEntities : StartsWithAt(s, x[1], Min(K))
          IN SubSeq(s, i, Min(K) - 1) \o <<e[2]>> \o SinglePassFrom(s, Min(K) + Len(e[1]))

SinglePass(s) == SinglePassFrom(s, 1)

\* C8: decode_entities of sanitizer.rs is a single pass: its result is the
\* input with every entity occurrence replaced once, simultaneously, so
\* "&amp;lt;" comes out as the text "&lt;" and not as "<".
C8_DecodeIsSinglePass ==
  pc = "decode_entities:done" =>
    /\ buf = SinglePass(html)
    /\ (html = E_amp \o <<"l", "t", ";">> => buf = E_lt)

\* decode_entities has decoded "&amp;lt;" to "&lt;".
C8_Witness ==
  /\ pc = "decode_entities:done"
  /\ html = E_amp \o <<"l", "t", ";">>
  /\ buf = E_lt

\* s holds a complete tag: a "<" with a ">" somewhere after it.
HasCompleteTag(s) ==
  \E i \in 1..Len(s) : \E j \in (i + 1)..Len(s) : s[i] = "<" /\ s[j] = ">"

\* C9: the text strip_html returns holds no complete tag, whether the tag
\* was literal in the input or came out of the entity decoding.
C9_NoTagInStripped ==
  pc = "strip_html:done" => ~HasCompleteTag(buf)

\* strip_html removed a tag that was entity-encoded in the input: the input
\* has no literal angle bracket and its decoded form has a complete tag.
C9_Witness ==
  /\ pc = "strip_html:done"
  /\ \A k \in 1..Len(html) : html[k] \notin {"<", ">"}
  /\ HasCompleteTag(sanitizer_decode_entities(html))
  /\ buf = <<"x">>

\* C25: the text strip_html returns holds no entity-encoded tag any more:
\* decoding it once more reveals no complete tag, so that decoding and
\* stripping it again would leave it unchanged.
C25_StripConverges ==
  pc = "strip_html:done" => ~HasCompleteTag(sanitizer_decode_entities(buf))

\* The characters of h that are outside its tags, in their order.
RECURSIVE OutsideTagsFrom(_, _)
OutsideTagsFrom(h, k) ==
  IF k > Len(h) THEN <<>>
  ELSE (IF InTag(h, k) THEN <<>> ELSE <<h[k]>>) \o OutsideTagsFrom(h, k + 1)

\* h is made of tags and of text runs free of "<", ">" and "&".
IsTaggedText(h) ==
  /\ \A k \in 1..Len(h) : h[k] = "<" => IndexFrom(h, ">", k + 1) > 0
  /\ \A k \in 1..Len(h) : h[k] = "&" => InTag(h, k)
  /\ \A k \in 1..Len(h) :
       h[k] = ">" => \E p \in 1..(k - 1) : h[p] = "<" /\ \A q \in p..(k - 1) : h[q] # ">"

\* C17: for a text made of text runs (free of "<", ">" and "&") and tags,
\* strip_html returns the text runs concatenated in their order and puts
\* nothing where a tag was.
C17_TextRunsConcatenated ==
  (pc = "strip_html:done" /\ IsTaggedText(html)) => buf = OutsideTagsFrom(html, 1)

\* Two text runs with a tag between them came out joined.
C17_Witness ==
  /\ pc = "strip_html:done"
  /\ html = <<"x", "<", "b", "r", ">", "y">>
  /\ buf = <<"x", "y">>

\* url begins with one of the three allowed schemes.
HasAllowedScheme(url) ==
  \E pre \in {T_https, T_http, T_mailto} :
    Len(pre) <= Len(url) /\ SubSeq(url, 1, Len(pre)) = pre

\* C10: every pair extract_hrefs returns has a url that begins with
\* "https://", "http://" or "mailto:", also for anchors and colons that
\* arrive entity-encoded.
C10_OnlyAllowedSchemes ==
  pc \in {"extract_hrefs:decoded", "extract_hrefs:done"} =>
    \A k \in 1..Len(results) : HasAllowedScheme(results[k][1])

\* An entity-encoded javascript anchor (its colon encoded as well) was
\* dropped and the entity-encoded https anchor after it was returned.
C10_Witness ==
  /\ pc = "extract_hrefs:done"
  /\ \A k \in 1..Len(html) : html[k] \notin {"<", ">", ":"}
  /\ \E p \in 1..Len(buf) : StartsWithAt(buf, T_js \o <<":">>, p)
  /\ results = << <<T_https \o <<"e">>, <<"s">> >> >>

(***************************************************************************)
(* Link extractor: claims C11, C12, C26                                    *)
(***************************************************************************)
\* The anchors with an allowed url in the order extract_hrefs finds them:
\* those of the text as it is, then those of the decoded text.
FoundAnchors(h) ==
  filter_safe(href_regex_captures_iter(h))
    \o filter_safe(href_regex_captures_iter(sanitizer_decode_entities(h)))

\* C11: the result of extract_hrefs is keyed by url: no two returned pairs
\* have the same url, and the pair returned for a url is the first anchor
\* found with that url.
C11_SetKeyedByUrl ==
  pc = "extract_hrefs:done" =>
    /\ \A k, l \in 1..Len(results) : results[k][1] = results[l][1] => k = l
    /\ \A k \in 1..Len(results) :
         LET F == FoundAnchors(html)
             J == {j \in 1..Len(F) : F[j][1] = results[k][1]}
         IN J # {} /\ results[k] = F[Min(J)]

\* The text p occurs in h.
Contains(h, p) == \E i \in 1..Len(h) : StartsWithAt(h, p, i)

\* An anchor around the url u with the text "s", its markup entirely
\* entity-encoded: &lt;a href=&quot;u&quot;&gt;s&lt;/a&gt;
EncodedAnchor(u) ==
  E_lt \o <<"a", " ", "h", "r", "e", "f", "=">> \o E_quot \o u \o E_quot
       \o E_gt \o <<"s">> \o E_lt \o <<"/", "a">> \o E_gt

\* The step in which extract_hrefs goes through the decoded text.
DecodedPass == pc = "extract_hrefs:decoded" /\ pc' = "extract_hrefs:done"

\* The pairs of the first pass stay where they are, in front.
LiteralPairsFirst ==
  Len(results) <= Len(results') /\ SubSeq(results', 1, Len(results)) = results

AnchorCount(h) ==
  Cardinality({p \in 1..Len(h) : \E o \in AnchorOpens : StartsWithAt(h, o, p)})

\* C26: every anchor element of the input contributes at most one pair to
\* the result of extract_hrefs, also a literal anchor whose href holds an
\* entity, which is found in the text as it is and in the decoded text.
C26_OnePairPerAnchor ==
  pc = "extract_hrefs:done" => Len(results) <= AnchorCount(html)

(***************************************************************************)
(* Concordance of the two paths: claim C16                                 *)
(***************************************************************************)
\* C16: for a text of the allowed vocabulary, segments_to_plain_text of
\* parse_markup and strip_html of sanitize_html yield the same text.
C16_Concordance ==
  pc = "done:plain" => segments_to_plain_text(segments) = buf

(***************************************************************************)
(* has_rich_content: claims C13, C29                                       *)
(***************************************************************************)
\* s holds an opening or closing tag of the allowed vocabulary: "<" or "</",
\* right after it one of the names b, i, u, a, p, br in either case, then
\* ">" or white space and the rest of the tag.
HasAllowedTag(s) ==
  \E p \in 1..Len(s) :
    LET m == tag_pattern_at(s, p)
    IN m.end > 0 /\ m.tag_name \in RichTagNames

\* C13: has_rich_content(text) is true if and only if text contains an
\* actual opening or closing tag of the allowed vocabulary; escaped tags
\* and bare "<" / ">" comparison operators never make it true.
C13_RichIffAllowedTag ==
  pc = "has_rich_content:done" => (rich <=> HasAllowedTag(html))

\* C29: for a text on which has_rich_content is false, every segment of
\* parse_markup has the default style and no link.
C29_PlainWhenNotRich ==
  (pc = "done:rich" /\ ~rich) =>
    \A k \in 1..Len(segments) :
      segments[k].style = TextStyle(FALSE, FALSE, FALSE) /\ segments[k].link = None

(***************************************************************************)
(* Configuration: claim C18                                                *)
(***************************************************************************)
\* The rules whose desktop_entry is the one looked up.
EntryMatches ==
  IF lookup.desktop_entry = None THEN {}
  ELSE {k \in 1..Len(app_rules) : app_rules[k].desktop_entry = lookup.desktop_entry}

\* The rules of the application looked up that name no desktop entry.
NameMatches ==
  {k \in 1..Len(app_rules) :
     app_rules[k].app_name = lookup.app_name /\ app_rules[k].desktop_entry = None}

\* C18: find_app_rule returns the first rule whose desktop_entry is the one
\* given, when one is given and there is such a rule; otherwise the first
\* rule of the application that has no desktop_entry; otherwise None. A
\* rule that names a desktop entry is never returned for a lookup without
\* that desktop entry.
C18_FindAppRule ==
  pc = "find_app_rule:done" =>
    /\ rule = IF EntryMatches # {} THEN Some(Min(EntryMatches))
              ELSE IF NameMatches # {} THEN Some(Min(NameMatches))
              ELSE None
    /\ (rule # None /\ app_rules[rule[1]].desktop_entry # None)
         => app_rules[rule[1]].desktop_entry = lookup.desktop_entry

\* The configuration holds a rule that names a desktop entry and, after it,
\* a generic rule of the same application; the lookup without desktop entry
\* returned the generic one.
C18_Witness ==
  /\ pc = "find_app_rule:done"
  /\ lookup = [app_name |-> "firefox", desktop_entry |-> None]
  /\ Len(app_rules) = 2
  /\ app_rules[1] = AppRule("firefox", Some("firefox.desktop"), FALSE)
  /\ app_rules[2] = AppRule("firefox", None, TRUE)
  /\ rule = Some(2)

(***************************************************************************)
(* Audio gatekeeper: claims C1 - C5                                        *)
(***************************************************************************)
\* The concurrency ceiling the tests name ("the limit (4)").
MAX_CONCURRENT_SOUNDS == 4

IsPrefix(r, p) == Len(r) <= Len(p) /\ SubSeq(p, 1, Len(r)) = r

\* The allowed sound roots: the home-relative .local/share/sounds tree and
\* the system /usr/share/sounds and /usr/local/share/sounds trees.
AllowedSoundRoots ==
  { HomeDir \o <<".local", "share", "sounds">>,
    <<"usr", "share", "sounds">>,
    <<"usr", "local", "share", "sounds">> }

PathAllowed(path) == \E r \in AllowedSoundRoots : IsPrefix(r, path)

\* A step in which a request returns; ret' is what it returned.
Returns == ncalls' = ncalls + 1

\* The path a returned request was resolved to (None: no theme file).
ResolvedPath(r) ==
  IF r.fn = "play_sound_file" THEN Some(r.arg)
  ELSE LET found == find_sound_theme_file(r.arg[1])
       IN IF found.ok THEN Some(found.path) ELSE None

\* C1: under every interleaving of requests and worker completions the
\* number of playback workers that are active at the same time never
\* exceeds the concurrency ceiling.
C1_ConcurrencyCap == ActiveWorkers <= MAX_CONCURRENT_SOUNDS

\* C2: a request whose path lies outside every allowed sound root returns
\* Err(PathNotAllowed(path)), spawns no worker and leaves the number of
\* in-flight workers unchanged.
C2_PathNotAllowed ==
  [][\A p \in RequestPaths \cup {BellSound} :
       (Returns /\ ResolvedPath(ret') = Some(p) /\ ~PathAllowed(p))
         => (ret'.result = PathNotAllowed(p) /\ threads' = threads)]_vars

\* C3: a request for an existing file inside an allowed root made while the
\* ceiling is reached returns Ok(()), starts no worker and leaves the
\* number of in-flight workers unchanged.
C3_DroppedAtCeiling ==
  [][\A p \in RequestPaths \cup {BellSound} :
       (Returns /\ ResolvedPath(ret') = Some(p) /\ exists(p) /\ PathAllowed(p)
          /\ ActiveWorkers >= MAX_CONCURRENT_SOUNDS)
         => (ret'.result = Ok /\ threads' = threads)]_vars

\* C4: play_sound_file on a path that does not exist returns
\* Err(FileNotFound(path)) in the call itself, spawns no worker and leaves
\* the set of in-flight workers unchanged, also for a path outside the
\* allowed sound roots.
C4_FileNotFound ==
  [][\A p \in RequestPaths :
       (Returns /\ ret'.fn = "play_sound_file" /\ ret'.arg = p /\ ~exists(p))
         => (ret'.result = FileNotFound(p) /\ threads' = threads)]_vars

\* A missing path outside the allowed roots was requested while a worker
\* was in flight, and the request returned FileNotFound.
C4_Witness ==
  /\ ret.fn = "play_sound_file"
  /\ ret.arg = NonexistentSound
  /\ ~exists(ret.arg) /\ ~PathAllowed(ret.arg)
  /\ ret.result = FileNotFound(NonexistentSound)
  /\ ActiveWorkers > 0

\* A thread ends through an error return of play_sound_file_blocking: a
\* thread that never reached "playing" is gone.
WorkerFailed ==
  /\ ncalls' = ncalls
  /\ ActiveWorkers' < ActiveWorkers
  /\ \E t \in BagToSet(threads) :
       t.st = "spawned" /\ CopiesIn(t, threads') < CopiesIn(t, threads)

\* C5: an admitted request returns Ok(()) in the step that spawns its worker,
\* no step of a worker changes what a request returned, and an error of
\* play_sound_file_blocking is logged and nothing else.
C5_ResultIndependentOfWorker ==
  [][/\ (ActiveWorkers' > ActiveWorkers => (Returns /\ ret'.result = Ok))
     /\ (~Returns => ret' = ret)
     /\ (WorkerFailed => (ret' = ret /\ log' # {} /\ log \subseteq log'))]_vars

\* The only request made was admitted with Ok, then its worker failed.
C5_Witness ==
  /\ ncalls = 1
  /\ ret.result = Ok
  /\ ActiveWorkers = 0
  /\ log # {}

(***************************************************************************)
(* Sound theme lookup: claim C27                                           *)
(***************************************************************************)
\* The user directories (theme, then generic) of the environment e.
UserDirs(e) ==
  IF e.XDG_DATA_HOME # None
  THEN << XdgDir \o <<"sounds", "freedesktop", "stereo">>, XdgDir \o <<"sounds">> >>
  ELSE IF e.HOME # None
  THEN << HomeDir \o <<".local", "share", "sounds", "freedesktop", "stereo">>,
          HomeDir \o <<".local", "share", "sounds">> >>
  ELSE <<>>

\* The directories in preference order.
PreferredDirs(e) == UserDirs(e) \o system_dirs

\* A candidate: directory d, extension x, and whether it is in stereo/.
Candidate(e, name, c) ==
  PreferredDirs(e)[c[1]]
    \o (IF c[3] = 1 THEN <<"stereo">> ELSE <<>>)
    \o <<name \o "." \o extensions[c[2]]>>

Candidates(e) == (1..Len(PreferredDirs(e))) \X (1..Len(extensions)) \X {0, 1}

\* c is probed before d: earlier directory, then earlier extension, then the
\* directory itself before its stereo subdirectory.
ProbedBefore(c, d) ==
  \/ c[1] < d[1]
  \/ c[1] = d[1] /\ c[2] < d[2]
  \/ c[1] = d[1] /\ c[2] = d[2] /\ c[3] < d[3]

\* C27: play_sound_name resolves the name to the first existing candidate in
\* preference order (user theme, user generic, system directories; in each
\* directory the extensions oga, ogg, wav, mp3, the file and then
\* stereo/file), so a file in a user directory wins over one in a system
\* directory, and it returns SoundNotFound(name) exactly when no candidate
\* exists.
C27_FirstCandidateWins ==
  [][\A name \in RequestNames :
       (Returns /\ ret'.fn = "play_sound_name" /\ ret'.arg = <<name>>) =>
         LET E == {c \in Candidates(env) : exists(Candidate(env, name, c))}
             first == CHOOSE c \in E : \A d \in E \ {c} : ProbedBefore(c, d)
         IN /\ (ret'.result = SoundNotFound(name)) <=> (E = {})
            /\ E = {} => threads' = threads
            /\ E # {} =>
                 /\ ret'.result = Ok
                 /\ threads' = BagAdd(threads, Thread(Candidate(env, name, first), "spawned"))
                 /\ (\E c \in E : c[1] <= Len(UserDirs(env)))
                      => first[1] <= Len(UserDirs(env))]_vars

\* The bell exists in a user directory and in a system directory, and the
\* request played the one of the user directory.
C27_Witness ==
  /\ ret.fn = "play_sound_name"
  /\ ret.result = Ok
  /\ BellSound \in fs
  /\ env.XDG_DATA_HOME = None
  /\ HomeDir \o <<".local", "share", "sounds", "bell.wav">> \in fs
  /\ BagToSet(threads)
       = {Thread(HomeDir \o <<".local", "share", "sounds", "bell.wav">>, "spawned")}
====
